---- MODULE Spec2Model ----
(***************************************************************************)
(* taskiq/receiver/receiver.py: the Receiver of a taskiq worker.           *)
(*                                                                         *)
(*   callback  decodes one raw message, runs the pre-execute hooks, the    *)
(*             task (run_task), the post-execute hooks, writes the result  *)
(*             and runs the post-save hooks;                               *)
(*   run_task  validates, resolves dependencies, runs the body, closes the *)
(*             dependency context, assembles the result, runs the          *)
(*             on-error hooks;                                             *)
(*   listen    pulls messages, takes a semaphore permit per message and    *)
(*             spawns one asyncio task running callback for each.          *)
(*                                                                         *)
(* A unit is one invocation of callback.  Its position pc names the        *)
(* awaited operation it will complete next; one action completes that      *)
(* operation and runs the synchronous code up to the next await.           *)
(* asyncio.CancelledError and the other non-Exception BaseExceptions are   *)
(* not caught by "except Exception" (Python >= 3.8).                       *)
(***************************************************************************)
EXTENDS Integers, Sequences, FiniteSets, TLC

\* Number of messages the queue delivers to listen in one behaviour.
MaxMsgs == 2

\* Largest max_async_tasks the receiver is constructed with.
MaxK == 2

Units == 1..MaxMsgs

Hooks == {"pre_execute", "post_execute", "post_save", "on_error"}

(***************************************************************************)
(* Values, exceptions, results                                             *)
(***************************************************************************)
IntV(n) == [t |-> "int", n |-> n]
StrV == [t |-> "str", n |-> 0]
NoneV == [t |-> "none", n |-> 0]

\* An exception: where it was raised and whether it derives from Exception.
NoExc == [src |-> "none", kind |-> "none"]
Exc(src, kind) == [src |-> src, kind |-> kind]

\* "except Exception" catches e.
IsException(e) == e.kind = "Exception"

TaskiqResult(is_err, return_value) == [is_err |-> is_err, return_value |-> return_value]

NoResult == [is_err |-> FALSE, return_value |-> [t |-> "unset", n |-> 0]]

(***************************************************************************)
(* Named arguments: a set of <<key, value>> pairs with unique keys.        *)
(***************************************************************************)
HasKey(kw, k) == \E p \in kw : p[1] = k

Get(kw, k) == (CHOOSE p \in kw : p[1] = k)[2]

(***************************************************************************)
(* Messages                                                                *)
(***************************************************************************)
Msg(id, name, args, kwargs) ==
    [task_id |-> id, task_name |-> name, labels |-> <<>>, args |-> args, kwargs |-> kwargs]

NoMsg == Msg(0, "", <<>>, {})

\* The raw messages a queue may deliver: a decodable payload or garbage.
Raw(id, name, args, kwargs) == [decodable |-> TRUE, msg |-> Msg(id, name, args, kwargs)]

Garbage == [decodable |-> FALSE, msg |-> NoMsg]

RawMessages(id) ==
    { Garbage,
      Raw(id, "add", <<IntV(2), IntV(3)>>, {}),
      Raw(id, "add", <<IntV(2), StrV>>, {}),
      Raw(id, "dep", <<>>, {<<"x", IntV(5)>>}),
      Raw(id, "dep", <<>>, {}),
      Raw(id, "boom", <<>>, {}),
      Raw(id, "exit", <<>>, {}),
      Raw(id, "baddep", <<>>, {}),
      Raw(id, "missing", <<>>, {}) }

\* The messages the listener's queue delivers: one that does not decode, one
\* whose task runs through every stage of callback, one for an unknown task.
ListenMessages(id) ==
    { Garbage,
      Raw(id, "boom", <<>>, {}),
      Raw(id, "add", <<IntV(2), StrV>>, {}),
      Raw(id, "missing", <<>>, {}) }

\* broker.formatter.loads: the decoded message; raises on garbage.
loads(raw) == IF raw.decodable THEN [ok |-> TRUE, msg |-> raw.msg] ELSE [ok |-> FALSE, msg |-> NoMsg]

(***************************************************************************)
(* The broker's registered tasks (broker.available_tasks) and the          *)
(* receiver's per-task metadata built by __init__.                         *)
(***************************************************************************)
AvailableTasks == {"add", "dep", "boom", "exit", "baddep"}

\* asyncio.iscoroutinefunction(original_func)
IsCoroutine(name) == name \in {"add", "boom", "baddep"}

\* dependency_graphs[name]: the named arguments the graph resolves.
DependencyGraph(name) ==
    CASE name = "dep" -> {<<"x", IntV(7)>>}
      [] OTHER -> {}

\* The dependencies of "baddep" raise while they are resolved.
DependencyFails(name) == name = "baddep"

AllInt(args, kwargs) ==
    /\ \A i \in 1..Len(args) : args[i].t = "int"
    /\ \A p \in kwargs : p[2].t = "int"

\* original_func(*args, **kwargs): what the body does when it is called.
Body(name, args, kwargs) ==
    CASE name = "add" ->
            IF Len(args) = 2 /\ kwargs = {} /\ AllInt(args, kwargs)
            THEN [kind |-> "return", val |-> IntV(args[1].n + args[2].n)]
            ELSE [kind |-> "Exception", val |-> NoneV]
      [] name \in {"dep", "baddep"} ->
            IF HasKey(kwargs, "x")
            THEN [kind |-> "return", val |-> Get(kwargs, "x")]
            ELSE [kind |-> "Exception", val |-> NoneV]
      [] name = "boom" -> [kind |-> "Exception", val |-> NoneV]
      [] OTHER -> [kind |-> "BaseException", val |-> NoneV]

\* _run_sync(target, message): the call made inside the executor.
RunSync(name, message) == Body(name, message.args, message.kwargs)

\* parse_params(signature, hints, message): with a signature, arguments that
\* do not fit the annotations are rejected; without one nothing is checked.
ParseParamsFails(has_signature, message) ==
    has_signature /\ ~AllInt(message.args, message.kwargs)

(***************************************************************************)
(* Middlewares.  A hook is "base" when the class does not override it.     *)
(***************************************************************************)
Middleware(name, pre, post, save, err, raises) ==
    [name |-> name, pre_execute |-> pre, post_execute |-> post,
     post_save |-> save, on_error |-> err, raises |-> raises]

\* The middleware lists a broker is configured with; raises names the hooks
\* of a middleware that may raise.
MiddlewareLists ==
    { << Middleware("A", "tag", "over", "over", "over", f),
         Middleware("N", "base", "base", "base", "base", {}),
         Middleware("B", "tag", "over", "over", "over", g) >> :
        f \in {{}, Hooks}, g \in {{}, Hooks} }
    \cup
    { << Middleware("A", "tag", "over", "base", "over", {}),
         Middleware("R", r, "base", "over", "base", {}) >> :
        r \in {"rename_boom", "rename_missing"} }

ListenMiddlewareLists ==
    { << Middleware("A", "tag", "over", "over", "over", {"post_save"}),
         Middleware("N", "base", "base", "base", "base", {}) >> }

(***************************************************************************)
(* State                                                                   *)
(***************************************************************************)
VARIABLES
    validate_params,            \* Receiver.validate_params
    max_async_tasks,            \* the constructor's argument
    middlewares,                \* broker.middlewares
    sem,                        \* Receiver.sem
    custom_dependency_context,  \* broker.custom_dependency_context
    units,                      \* the invocations of callback
    listen_pc,                  \* where listen is
    pending,                    \* the message listen holds while it waits for a permit
    tasks,                      \* listen's set of spawned asyncio tasks
    delivered,                  \* messages broker.listen() has yielded
    cb_runs                     \* how often task_cb has run for each task

vars == << validate_params, max_async_tasks, middlewares, sem, custom_dependency_context,
           units, listen_pc, pending, tasks, delivered, cb_runs >>

config == << validate_params, max_async_tasks, middlewares >>

listener == << sem, listen_pc, pending, tasks, delivered, cb_runs >>

\* A callback invocation that does not exist yet.
NoUnit ==
    [ pc |-> "none", idx |-> 0, susp |-> FALSE, origin |-> "none",
      raw |-> Garbage, raise_err |-> FALSE,
      decoded |-> NoMsg, msg |-> NoMsg, target |-> "",
      rt |-> "none", rt_msg |-> NoMsg,
      found_exception |-> NoExc, returned |-> NoneV,
      rt_result |-> NoResult, result |-> NoResult,
      dep_ctx |-> "none", end |-> "", exc |-> NoExc, swallowed |-> NoExc,
      hook_exc |-> NoExc, body_out |-> [kind |-> "none", val |-> NoneV],
      body_calls |-> <<>>, pre_log |-> <<>>, on_error_log |-> <<>>,
      post_execute_log |-> <<>>, post_save_log |-> <<>>, store_log |-> <<>> ]

\* callback(message, raise_err) has been called (or its task created) and has not run yet.
NewUnit(origin, raw, raise_err) ==
    [NoUnit EXCEPT !.pc = "start", !.origin = origin, !.raw = raw, !.raise_err = raise_err]

\* Faulty variant: a semaphore is made for any max_async_tasks that is given.
NewSemWheneverGiven(m) ==
    IF m.given
    THEN [present |-> TRUE, value |-> m.n]
    ELSE [present |-> FALSE, value |-> 0]

\* Receiver.__init__: the semaphore exists only for a positive max_async_tasks.
NewSem(m) ==
    IF m.given /\ m.n > 0
    THEN [present |-> TRUE, value |-> m.n]
    ELSE [present |-> FALSE, value |-> 0]

MaxAsyncTasksChoices ==
    {[given |-> FALSE, n |-> 0]} \cup {[given |-> TRUE, n |-> n] : n \in -1..MaxK}

\* middleware.__class__.<hook> != TaskiqMiddleware.<hook>
Overrides(mw, hook) == mw[hook] # "base"

\* The next middleware at or after position i that overrides hook; 0 if none.
NextOver(hook, i) ==
    LET S == { j \in i..Len(middlewares) : Overrides(middlewares[j], hook) }
    IN  IF S = {} THEN 0 ELSE CHOOSE j \in S : \A k \in S : j <= k

\* The middlewares overriding hook, in registration order.
Overriding(hook) ==
    LET F[i \in 0..Len(middlewares)] ==
            IF i = 0 THEN <<>>
            ELSE IF Overrides(middlewares[i], hook) THEN Append(F[i-1], i) ELSE F[i-1]
    IN  F[Len(middlewares)]

(***************************************************************************)
(* callback and run_task, from the last step to the first: each operator   *)
(* takes the unit's record where an await has completed and runs the       *)
(* synchronous code up to the next await or to the end of callback.        *)
(***************************************************************************)
\* callback ends: "returned", "raised" (exc propagates) or "cancelled".
Finish(r, end, exc) == [r EXCEPT !.pc = "done", !.end = end, !.exc = exc]

\* An exception leaves run_task and, uncaught in callback, callback too.
RaiseFromRunTask(r, exc) == Finish([r EXCEPT !.rt = "raised"], "raised", exc)

\* Faulty variant: the handler never re-raises.
HandleSaveErrorSwallow(r, exc) == Finish([r EXCEPT !.swallowed = exc], "returned", NoExc)

\* callback lines 128-135: the handler around set_result and the post-save hooks.
HandleSaveError(r, exc) ==
    IF r.raise_err
    THEN Finish(r, "raised", exc)
    ELSE Finish([r EXCEPT !.swallowed = exc], "returned", NoExc)

\* callback lines 125-127, after hook i-1: the next post-save hook or the end.
ContinuePostSave(r, i) ==
    IF NextOver("post_save", i) = 0
    THEN Finish(r, "returned", NoExc)
    ELSE [r EXCEPT !.pc = "post_save", !.idx = NextOver("post_save", i)]

\* callback lines 120-124, after hook i-1: the next post-execute hook or set_result.
ContinuePostExecute(r, i) ==
    IF NextOver("post_execute", i) = 0
    THEN [r EXCEPT !.pc = "set_result", !.idx = 0]
    ELSE [r EXCEPT !.pc = "post_execute", !.idx = NextOver("post_execute", i)]

\* run_task line 231 and callback line 116: the result reaches callback.
ReturnFromRunTask(r) ==
    ContinuePostExecute([r EXCEPT !.rt = "returned", !.result = r.rt_result], 1)

\* Faulty variant: run_task returns without calling the on-error hooks.
ContinueOnErrorSkip(r, i) == ReturnFromRunTask(r)

\* run_task lines 220-231, after hook i-1: the next on-error hook or the return.
ContinueOnError(r, i) ==
    IF NextOver("on_error", i) = 0
    THEN ReturnFromRunTask(r)
    ELSE [r EXCEPT !.pc = "on_error", !.idx = NextOver("on_error", i)]

\* Faulty variant: the returned value is left out of the result.
AssembleResultNoValue(r) ==
    [r EXCEPT !.rt_result = TaskiqResult(r.found_exception # NoExc, NoneV)]

\* run_task lines 213-218.
AssembleResult(r) ==
    [r EXCEPT !.rt_result = TaskiqResult(r.found_exception # NoExc, r.returned)]

\* run_task lines 213-231: the result, then the on-error hooks only on failure.
AfterClose(r) ==
    IF r.found_exception # NoExc
    THEN ContinueOnError(AssembleResult(r), 1)
    ELSE ReturnFromRunTask(AssembleResult(r))

\* run_task lines 208-210: the context is closed if there is one.
AfterBody(r) ==
    IF r.dep_ctx = "open" THEN [r EXCEPT !.pc = "close", !.idx = 0] ELSE AfterClose(r)

\* run_task lines 187-206: the outcome of the awaited body; only Exception is caught.
CatchBody(r, out) ==
    CASE out.kind = "return" -> AfterBody([r EXCEPT !.returned = out.val])
      [] IsException(Exc("body", out.kind)) ->
            AfterBody([r EXCEPT !.found_exception = Exc("body", out.kind)])
      [] OTHER -> RaiseFromRunTask(r, Exc("body", out.kind))

\* Faulty variant: a resolved value replaces the message's value of the same name.
InjectOverwrite(kwargs, dep_kwargs) ==
    { p \in kwargs : ~HasKey(dep_kwargs, p[1]) } \cup dep_kwargs

\* run_task lines 182-184: a resolved value is injected only under a new name.
InjectDependencies(kwargs, dep_kwargs) ==
    kwargs \cup { p \in dep_kwargs : ~HasKey(kwargs, p[1]) }

\* run_task lines 186-199: the body is called, inline or in the executor.
CallBody(r) ==
    [r EXCEPT !.pc = "body", !.idx = 0,
              !.body_calls = Append(@, [target |-> r.target, args |-> r.msg.args,
                                        kwargs |-> r.msg.kwargs,
                                        lane |-> IF IsCoroutine(r.target)
                                                 THEN "inline" ELSE "executor"])]

\* Faulty variant: a validation failure is recorded like a failure of the body.
StartRunTaskCatch(r) ==
    LET name == r.msg.task_name
        has_signature == validate_params /\ name \in AvailableTasks
        entered == [r EXCEPT !.rt = "running", !.rt_msg = r.msg]
    IN  IF ParseParamsFails(has_signature, r.msg)
        THEN AfterBody([entered EXCEPT !.found_exception = Exc("parse_params", "Exception")])
        ELSE IF name \in AvailableTasks
             THEN [entered EXCEPT !.pc = "resolve", !.idx = 0, !.dep_ctx = "open"]
             ELSE CallBody(entered)

\* run_task lines 160-181 for a task with the given metadata.
StartRunTask(r) ==
    LET name == r.msg.task_name
        has_signature == validate_params /\ name \in AvailableTasks
        entered == [r EXCEPT !.rt = "running", !.rt_msg = r.msg]
    IN  IF ParseParamsFails(has_signature, r.msg)
        THEN RaiseFromRunTask(entered, Exc("parse_params", "Exception"))
        ELSE IF name \in AvailableTasks
             THEN [entered EXCEPT !.pc = "resolve", !.idx = 0, !.dep_ctx = "open"]
             ELSE CallBody(entered)

\* callback lines 116-119: the body is looked up under the name the message has now.
EnterRunTask(r) ==
    IF r.msg.task_name \in AvailableTasks
    THEN StartRunTask([r EXCEPT !.target = r.msg.task_name])
    ELSE Finish(r, "raised", Exc("lookup", "Exception"))

\* callback lines 103-116, after hook i-1: the next pre-execute hook or run_task.
ContinuePreExecute(r, i) ==
    IF NextOver("pre_execute", i) = 0
    THEN EnterRunTask(r)
    ELSE [r EXCEPT !.pc = "pre_execute", !.idx = NextOver("pre_execute", i)]

\* Faulty variant: the registry is not consulted before the hooks run.
DecodeWithoutLookup(r) ==
    IF ~loads(r.raw).ok
    THEN Finish(r, "returned", NoExc)
    ELSE ContinuePreExecute([r EXCEPT !.decoded = loads(r.raw).msg,
                                      !.msg = loads(r.raw).msg], 1)

\* callback lines 82-102.
Decode(r) ==
    IF ~loads(r.raw).ok
    THEN Finish(r, "returned", NoExc)
    ELSE IF loads(r.raw).msg.task_name \notin AvailableTasks
         THEN Finish([r EXCEPT !.decoded = loads(r.raw).msg], "returned", NoExc)
         ELSE ContinuePreExecute([r EXCEPT !.decoded = loads(r.raw).msg,
                                           !.msg = loads(r.raw).msg], 1)

\* What a pre_execute hook returns for the message it is given.
PreExecuteHook(mw, message) ==
    CASE mw.pre_execute = "tag" -> [message EXCEPT !.labels = Append(@, mw.name)]
      [] mw.pre_execute = "rename_boom" -> [message EXCEPT !.task_name = "boom"]
      [] mw.pre_execute = "rename_missing" -> [message EXCEPT !.task_name = "missing"]
      [] OTHER -> message

\* Faulty variant: the hook's return value is discarded.
DropMessage(r, returned_msg) == r

\* callback line 105: the hook's return value becomes taskiq_msg.
ThreadMessage(r, returned_msg) == [r EXCEPT !.msg = returned_msg]

\* A hook raised exc.
HookRaised(r, exc) == [r EXCEPT !.hook_exc = exc]

\* Whether the hook of a middleware raises this time.
HookOutcomes(mw, hook) == IF hook \in mw.raises THEN {"ok", "raise"} ELSE {"ok"}

(***************************************************************************)
(* Steps of one callback invocation                                        *)
(***************************************************************************)
\* run_task lines 172-178: entering run_task with a dependency graph stores
\* this message's Context in the broker's map.
ContextAfter(before, after) ==
    IF before.rt = "none" /\ after.rt # "none" /\ after.dep_ctx = "open"
    THEN [Context |-> after.rt_msg.task_id, TaskiqState |-> "state"]
    ELSE custom_dependency_context

Step(u, after) ==
    /\ units' = [units EXCEPT ![u] = [after EXCEPT !.susp = TRUE]]
    /\ custom_dependency_context' = ContextAfter(units[u], after)
    /\ UNCHANGED << config, listener >>

\* The task starts running callback: lines 82-102 and on to the first await.
Begin(u) ==
    /\ units[u].pc = "start"
    /\ units' = [units EXCEPT ![u] = Decode(units[u])]
    /\ custom_dependency_context' = ContextAfter(units[u], Decode(units[u]))
    /\ UNCHANGED << config, listener >>

\* callback lines 103-109: a pre_execute hook returns the next message or raises.
PreExecute(u) ==
    /\ units[u].pc = "pre_execute"
    /\ LET r == units[u]
           mw == middlewares[r.idx]
           called == [r EXCEPT !.pre_log = Append(@, [mw |-> r.idx, msg |-> r.msg])]
       IN  \E out \in HookOutcomes(mw, "pre_execute") :
             IF out = "raise"
             THEN Step(u, Finish(HookRaised(called, Exc("pre_execute", "Exception")),
                                 "raised", Exc("pre_execute", "Exception")))
             ELSE Step(u, ContinuePreExecute(
                             ThreadMessage(called, PreExecuteHook(mw, r.msg)), r.idx + 1))

\* run_task lines 181-199: resolve_kwargs returns or raises; the body is called.
Resolve(u) ==
    /\ units[u].pc = "resolve"
    /\ LET r == units[u]
       IN  IF DependencyFails(r.msg.task_name)
           THEN Step(u, RaiseFromRunTask(r, Exc("resolve", "Exception")))
           ELSE Step(u, CallBody([r EXCEPT !.msg.kwargs =
                           InjectDependencies(@, DependencyGraph(r.msg.task_name))]))

\* run_task lines 187-210: the awaited body returns or raises.
BodyDone(u) ==
    /\ units[u].pc = "body"
    /\ LET r == units[u]
           out == IF IsCoroutine(r.target)
                  THEN Body(r.target, r.msg.args, r.msg.kwargs)
                  ELSE RunSync(r.target, r.msg)
       IN  Step(u, CatchBody([r EXCEPT !.body_out = out], out))

\* run_task lines 209-231: dep_ctx.close() returns.
CloseContext(u) ==
    /\ units[u].pc = "close"
    /\ Step(u, AfterClose([units[u] EXCEPT !.dep_ctx = "closed"]))

\* run_task lines 221-229: an on_error hook returns or raises.
OnError(u) ==
    /\ units[u].pc = "on_error"
    /\ LET r == units[u]
           mw == middlewares[r.idx]
           called == [r EXCEPT !.on_error_log =
                         Append(@, [mw |-> r.idx, msg |-> r.msg, result |-> r.rt_result,
                                    exc |-> r.found_exception])]
       IN  \E out \in HookOutcomes(mw, "on_error") :
             IF out = "raise"
             THEN Step(u, RaiseFromRunTask(HookRaised(called, Exc("on_error", "Exception")),
                                           Exc("on_error", "Exception")))
             ELSE Step(u, ContinueOnError(called, r.idx + 1))

\* callback lines 120-122: a post_execute hook returns or raises.
PostExecute(u) ==
    /\ units[u].pc = "post_execute"
    /\ LET r == units[u]
           mw == middlewares[r.idx]
           called == [r EXCEPT !.post_execute_log =
                         Append(@, [mw |-> r.idx, msg |-> r.msg, result |-> r.result])]
       IN  \E out \in HookOutcomes(mw, "post_execute") :
             IF out = "raise"
             THEN Step(u, Finish(HookRaised(called, Exc("post_execute", "Exception")),
                                 "raised", Exc("post_execute", "Exception")))
             ELSE Step(u, ContinuePostExecute(called, r.idx + 1))

\* callback lines 123-135: set_result stores the result or raises.
SetResult(u) ==
    /\ units[u].pc = "set_result"
    /\ LET r == units[u]
       IN  \E ok \in BOOLEAN :
             LET called == [r EXCEPT !.store_log =
                               Append(@, [task_id |-> r.msg.task_id, result |-> r.result,
                                          ok |-> ok])]
             IN  IF ok
                 THEN Step(u, ContinuePostSave(called, 1))
                 ELSE Step(u, HandleSaveError(called, Exc("set_result", "Exception")))

\* callback lines 125-135: a post_save hook returns or raises inside the try block.
PostSave(u) ==
    /\ units[u].pc = "post_save"
    /\ LET r == units[u]
           mw == middlewares[r.idx]
           called == [r EXCEPT !.post_save_log =
                         Append(@, [mw |-> r.idx, msg |-> r.msg, result |-> r.result])]
       IN  \E out \in HookOutcomes(mw, "post_save") :
             IF out = "raise"
             THEN Step(u, HandleSaveError(HookRaised(called, Exc("post_save", "Exception")),
                                          Exc("post_save", "Exception")))
             ELSE Step(u, ContinuePostSave(called, r.idx + 1))

\* The task is cancelled before it first runs or while it is suspended in an
\* await: CancelledError passes both "except Exception" handlers.
Cancel(u) ==
    /\ units[u].pc = "start" \/ (units[u].pc \notin {"none", "done"} /\ units[u].susp)
    /\ Step(u, Finish([units[u] EXCEPT !.rt = IF @ = "running" THEN "cancelled" ELSE @],
                      "cancelled", Exc("cancel", "BaseException")))

\* callback(message, raise_err) is called directly.
DirectCall(raw, raise_err) ==
    /\ listen_pc = "off"
    /\ units[1].pc = "none"
    /\ units' = [units EXCEPT ![1] = NewUnit("direct", raw, raise_err)]
    /\ UNCHANGED << config, listener, custom_dependency_context >>

UnitStep(u) ==
    \/ Begin(u)
    \/ PreExecute(u)
    \/ Resolve(u)
    \/ BodyDone(u)
    \/ CloseContext(u)
    \/ OnError(u)
    \/ PostExecute(u)
    \/ SetResult(u)
    \/ PostSave(u)
    \/ Cancel(u)

(***************************************************************************)
(* listen                                                                  *)
(***************************************************************************)
\* Faulty variant: acquire never waits.
CanAcquireAlways(s) == TRUE

\* asyncio.Semaphore.acquire can return at once.
CanAcquire(s) == ~s.present \/ s.value > 0

\* Faulty variant: acquire returns without taking a permit.
AcquireFree(s) == s

\* listen lines 260-261.
Acquire(s) == IF s.present THEN [s EXCEPT !.value = @ - 1] ELSE s

\* Faulty variant: a release hands back two permits.
ReleaseTwice(s) == IF s.present THEN [s EXCEPT !.value = @ + 2] ELSE s

\* task_cb lines 255-256.
Release(s) == IF s.present THEN [s EXCEPT !.value = @ + 1] ELSE s

\* listen lines 262-270: the task is created, added to the set, given task_cb.
Spawn(u, raw) ==
    /\ units' = [units EXCEPT ![u] = NewUnit("listen", raw, FALSE)]
    /\ tasks' = tasks \cup {u}
    /\ sem' = Acquire(sem)

\* listen lines 240-242.
Startup ==
    /\ listen_pc = "startup"
    /\ listen_pc' = "listening"
    /\ UNCHANGED << config, sem, custom_dependency_context, units, pending, tasks,
                    delivered, cb_runs >>

\* Faulty variant: a message is held back while an earlier task is in flight.
PullAfterDrain ==
    /\ listen_pc = "listening"
    /\ delivered < MaxMsgs
    /\ delivered' = delivered + 1
    /\ \E raw \in ListenMessages(delivered + 1) :
         IF CanAcquire(sem) /\ tasks = {}
         THEN /\ Spawn(delivered + 1, raw)
              /\ UNCHANGED << listen_pc, pending >>
         ELSE /\ listen_pc' = "blocked"
              /\ pending' = raw
              /\ UNCHANGED << units, tasks, sem >>
    /\ UNCHANGED << config, custom_dependency_context, cb_runs >>

\* listen lines 258-270: the queue yields a message; with a free permit (or no
\* semaphore) the task is spawned at once, otherwise listen waits in acquire.
Pull ==
    /\ listen_pc = "listening"
    /\ delivered < MaxMsgs
    /\ delivered' = delivered + 1
    /\ \E raw \in ListenMessages(delivered + 1) :
         IF CanAcquire(sem)
         THEN /\ Spawn(delivered + 1, raw)
              /\ UNCHANGED << listen_pc, pending >>
         ELSE /\ listen_pc' = "blocked"
              /\ pending' = raw
              /\ UNCHANGED << units, tasks, sem >>
    /\ UNCHANGED << config, custom_dependency_context, cb_runs >>

\* listen lines 261-270: a permit was released, acquire returns.
Admit ==
    /\ listen_pc = "blocked"
    /\ CanAcquire(sem)
    /\ Spawn(delivered, pending)
    /\ listen_pc' = "listening"
    /\ pending' = Garbage
    /\ UNCHANGED << config, custom_dependency_context, delivered, cb_runs >>

\* A finished task after task_cb: the set held the last reference to it.
Collected(r) == [NoUnit EXCEPT !.pc = "collected", !.origin = r.origin, !.end = r.end]

\* Faulty variant: the cleanup runs only for a callback that returned normally.
TaskCbOnSuccess(u) ==
    /\ units[u].pc = "done"
    /\ units[u].origin = "listen"
    /\ units[u].end = "returned"
    /\ tasks' = tasks \ {u}
    /\ sem' = Release(sem)
    /\ cb_runs' = [cb_runs EXCEPT ![u] = @ + 1]
    /\ units' = [units EXCEPT ![u] = Collected(units[u])]
    /\ UNCHANGED << config, custom_dependency_context, listen_pc, pending, delivered >>

\* Faulty variant: the permit goes back only for a callback that returned.
TaskCbKeepPermit(u) ==
    /\ units[u].pc = "done"
    /\ units[u].origin = "listen"
    /\ tasks' = tasks \ {u}
    /\ sem' = IF units[u].end = "returned" THEN Release(sem) ELSE sem
    /\ cb_runs' = [cb_runs EXCEPT ![u] = @ + 1]
    /\ units' = [units EXCEPT ![u] = Collected(units[u])]
    /\ UNCHANGED << config, custom_dependency_context, listen_pc, pending, delivered >>

\* task_cb, lines 244-256: the event loop calls it once the task is done.
TaskCb(u) ==
    /\ units[u].pc = "done"
    /\ units[u].origin = "listen"
    /\ tasks' = tasks \ {u}
    /\ sem' = Release(sem)
    /\ cb_runs' = [cb_runs EXCEPT ![u] = @ + 1]
    /\ units' = [units EXCEPT ![u] = Collected(units[u])]
    /\ UNCHANGED << config, custom_dependency_context, listen_pc, pending, delivered >>

(***************************************************************************)
(* Specifications                                                          *)
(***************************************************************************)
InitCommon ==
    /\ custom_dependency_context = [Context |-> 0, TaskiqState |-> "unset"]
    /\ units = [u \in Units |-> NoUnit]
    /\ sem = NewSem(max_async_tasks)
    /\ pending = Garbage
    /\ tasks = {}
    /\ delivered = 0
    /\ cb_runs = [u \in Units |-> 0]

\* A receiver whose callback is called directly, once.
Init ==
    /\ max_async_tasks \in {[given |-> FALSE, n |-> 0]}
    /\ middlewares \in MiddlewareLists
    /\ validate_params \in BOOLEAN
    /\ listen_pc = "off"
    /\ InitCommon

Next ==
    \/ \E raw \in RawMessages(1), raise_err \in BOOLEAN : DirectCall(raw, raise_err)
    \/ \E u \in Units : UnitStep(u)

Spec == Init /\ [][Next]_vars

\* A receiver whose listen() is running.
InitListen ==
    /\ max_async_tasks \in MaxAsyncTasksChoices
    /\ middlewares \in ListenMiddlewareLists
    /\ validate_params = TRUE
    /\ listen_pc = "startup"
    /\ InitCommon

NextListen ==
    \/ Startup
    \/ Pull
    \/ Admit
    \/ \E u \in Units : TaskCb(u)
    \/ \E u \in Units : UnitStep(u)

SpecListen == InitListen /\ [][NextListen]_vars

\* The receivers that differ in listen: no semaphore, or one of 1..MaxK permits
\* (a zero or negative max_async_tasks gives the receiver without semaphore).
InitFairListen == InitListen /\ (max_async_tasks.given => max_async_tasks.n > 0)

\* The event loop runs every scheduled done-callback.
FairListen ==
    /\ InitFairListen
    /\ [][NextListen]_vars
    /\ \A u \in Units : WF_vars(TaskCb(u))

\* ... and wakes listen from acquire once a permit is free.
FairAdmit == FairListen /\ WF_vars(Admit)

(***************************************************************************)
(* Properties of listen                                                    *)
(***************************************************************************)
\* The spawned tasks whose done-callback has not run yet.
InFlight == { u \in Units : units[u].origin = "listen" /\ units[u].pc # "collected" }

\* The spawned tasks that have ended, in whatever way.
Ended(u) == units[u].origin = "listen" /\ units[u].pc = "done"

\* C1: with max_async_tasks = K > 0, the number of spawned tasks whose
\* done-callback has not yet run never exceeds K.
C1_InFlightAtMostK ==
    (max_async_tasks.given /\ max_async_tasks.n > 0)
        => Cardinality(InFlight) <= max_async_tasks.n

\* K tasks are in flight and listen waits in acquire with the next message.
C1_Witness ==
    /\ max_async_tasks.given /\ max_async_tasks.n > 0
    /\ Cardinality(InFlight) = max_async_tasks.n
    /\ listen_pc = "blocked"

\* C2: every spawned task that has ended (returned, raised or cancelled) is
\* eventually removed from the in-flight set with its permit released; task_cb
\* runs at most once per task, and each run removes that task and releases
\* exactly one permit.
C2_CleanupExactlyOnce ==
    /\ \A u \in Units : Ended(u) ~> (u \notin tasks /\ cb_runs[u] = 1)
    /\ [](\A u \in Units : cb_runs[u] <= 1)
    /\ [][\A u \in Units :
            cb_runs'[u] # cb_runs[u] =>
                /\ Ended(u)
                /\ u \in tasks /\ tasks' = tasks \ {u}
                /\ sem.present => sem'.value = sem.value + 1]_vars

\* A cancelled task has been removed from the set and every permit is free again.
C2_Witness ==
    \E u \in Units :
        /\ units[u].pc = "collected" /\ units[u].end = "cancelled"
        /\ u \notin tasks /\ cb_runs[u] = 1
        /\ sem.present /\ sem.value = max_async_tasks.n

(***************************************************************************)
(* Properties of run_task and callback                                     *)
(***************************************************************************)
\* The middlewares of a hook log, in the order they were invoked.
LogMws(log) == [i \in 1..Len(log) |-> log[i].mw]

IsPrefix(a, b) == Len(a) <= Len(b) /\ \A i \in 1..Len(a) : a[i] = b[i]

\* The awaited body raised (it neither returned nor is still running).
BodyRaised(r) == r.body_out.kind \notin {"none", "return"}

\* C3: a task body that raises, whatever the exception, never makes run_task
\* propagate it; run_task returns a result with is_err = true and no value.
C3_BodyExceptionNeverPropagates ==
    \A u \in Units :
        BodyRaised(units[u]) =>
            /\ units[u].exc.src # "body"
            /\ units[u].rt = "returned" => units[u].result = TaskiqResult(TRUE, NoneV)

\* The on-error calls run_task owes a body that raised: every overriding
\* middleware once, in registration order, with message, result and exception.
ExpectedOnError(r) ==
    [i \in 1..Len(Overriding("on_error")) |->
        [mw |-> Overriding("on_error")[i], msg |-> r.msg,
         result |-> TaskiqResult(TRUE, NoneV), exc |-> Exc("body", r.body_out.kind)]]

\* C4: once run_task is over (and no on-error hook itself raised), a body that
\* raised has had every overriding on_error hook invoked exactly once, in
\* registration order, with the message, the result and the exception; a body
\* that did not raise has had none; a non-overriding middleware never has.
C4_OnErrorHooks ==
    \A u \in Units :
        LET r == units[u] IN
        /\ IsPrefix(LogMws(r.on_error_log), Overriding("on_error"))
        /\ ~BodyRaised(r) => r.on_error_log = <<>>
        /\ (BodyRaised(r) /\ r.rt \in {"returned", "raised"} /\ r.hook_exc.src # "on_error")
              => r.on_error_log = ExpectedOnError(r)

\* C5: when the body of a registered task returns, run_task returns
\* is_err = false and the value the body returns for the message's positional
\* and named arguments, on the inline lane and on the executor lane.
C5_SuccessResult ==
    \A u \in Units :
        LET r == units[u] IN
        (r.body_out.kind = "return" /\ r.rt = "returned") =>
            /\ r.result = TaskiqResult(FALSE, r.body_out.val)
            /\ r.body_out = Body(r.target, r.body_calls[1].args, r.body_calls[1].kwargs)
            /\ r.body_calls[1].args = r.rt_msg.args
            /\ r.rt_msg.kwargs \subseteq r.body_calls[1].kwargs
            /\ r.body_calls[1].lane = (IF IsCoroutine(r.target) THEN "inline" ELSE "executor")
            /\ (r.target = "add" /\ r.rt_msg.args = <<IntV(2), IntV(3)>>)
                  => r.result.return_value = IntV(5)

\* A body run in the executor returned 5 and run_task returned it.
C5_Witness ==
    \E u \in Units :
        /\ units[u].rt = "returned"
        /\ units[u].body_calls # <<>> /\ units[u].body_calls[1].lane = "executor"
        /\ units[u].result = TaskiqResult(FALSE, IntV(5))

\* C6: the body is called with the message's own value for every dependency
\* name the message carries, and with the resolved value for every other
\* dependency name; no named argument of the message is overwritten.
C6_ExplicitKwargsWin ==
    \A u \in Units :
        LET r == units[u] IN
        r.body_calls # <<>> =>
            LET c == r.body_calls[1] IN
            /\ \A p \in DependencyGraph(r.target) :
                  IF HasKey(r.rt_msg.kwargs, p[1])
                  THEN Get(c.kwargs, p[1]) = Get(r.rt_msg.kwargs, p[1])
                  ELSE p \in c.kwargs
            /\ r.rt_msg.kwargs \subseteq c.kwargs
            /\ \A p \in c.kwargs, q \in c.kwargs : p[1] = q[1] => p = q

\* The message carries x = 5, the graph resolves x to 7, the body is called with x = 5.
C6_Witness ==
    \E u \in Units :
        /\ units[u].target = "dep"
        /\ <<"x", IntV(5)>> \in units[u].rt_msg.kwargs
        /\ <<"x", IntV(7)>> \in DependencyGraph(units[u].target)
        /\ units[u].body_calls # <<>>
        /\ units[u].body_calls[1].kwargs = {<<"x", IntV(5)>>}

\* loads fails on the raw message, or the decoded task name is not registered.
Dropped(raw) == ~loads(raw).ok \/ loads(raw).msg.task_name \notin AvailableTasks

\* C7: for a raw message that does not decode or names no registered task,
\* callback returns normally for either raise_err, with no hook call, no body
\* call, no result and no result-store write.
C7_DroppedSilently ==
    \A u \in Units :
        LET r == units[u] IN
        (r.pc \in {"start", "pre_execute", "resolve", "body", "close", "on_error",
                   "post_execute", "set_result", "post_save", "done"} /\ Dropped(r.raw)) =>
            /\ r.pre_log = <<>> /\ r.on_error_log = <<>>
            /\ r.post_execute_log = <<>> /\ r.post_save_log = <<>>
            /\ r.body_calls = <<>> /\ r.store_log = <<>>
            /\ r.rt = "none" /\ r.rt_result = NoResult /\ r.result = NoResult
            /\ r.pc \in {"start", "done"}
            /\ r.pc = "done" => r.end \in {"returned", "cancelled"}
            /\ (r.pc = "done" /\ r.end = "cancelled") => r.decoded = NoMsg

\* callback(raise_err = true) returned normally on an unregistered task name.
C7_Witness ==
    \E u \in Units :
        /\ units[u].raise_err
        /\ units[u].decoded.task_name = "missing"
        /\ units[u].pc = "done" /\ units[u].end = "returned"

\* The pre-execute calls made so far form a chain from the decoded message.
PreChain(r) ==
    /\ IsPrefix(LogMws(r.pre_log), Overriding("pre_execute"))
    /\ r.pre_log # <<>> => r.pre_log[1].msg = r.decoded
    /\ \A i \in 1..(Len(r.pre_log) - 1) :
          r.pre_log[i+1].msg = PreExecuteHook(middlewares[r.pre_log[i].mw], r.pre_log[i].msg)

\* What the last pre-execute hook called so far returned (the decoded message if none was).
LastPreMessage(r) ==
    IF r.pre_log = <<>>
    THEN r.decoded
    ELSE PreExecuteHook(middlewares[r.pre_log[Len(r.pre_log)].mw],
                        r.pre_log[Len(r.pre_log)].msg)

\* m is the message object m0, whose named arguments run_task may have extended.
SameMessage(m, m0) ==
    /\ m.task_id = m0.task_id /\ m.task_name = m0.task_name
    /\ m.labels = m0.labels /\ m.args = m0.args
    /\ m0.kwargs \subseteq m.kwargs

\* C8: the overriding pre_execute hooks run in registration order, the first on
\* the decoded message and each next one on what the previous one returned;
\* what the last one returned is the message run_task gets, the message every
\* post_execute and post_save hook gets, and its task_id keys the store write.
C8_PreExecuteThreading ==
    \A u \in Units :
        LET r == units[u] IN
        /\ PreChain(r)
        /\ r.rt # "none" =>
              /\ LogMws(r.pre_log) = Overriding("pre_execute")
              /\ r.rt_msg = LastPreMessage(r)
        /\ \A i \in 1..Len(r.post_execute_log) :
              SameMessage(r.post_execute_log[i].msg, LastPreMessage(r))
        /\ \A i \in 1..Len(r.post_save_log) :
              SameMessage(r.post_save_log[i].msg, LastPreMessage(r))
        /\ \A i \in 1..Len(r.store_log) :
              r.store_log[i].task_id = LastPreMessage(r).task_id

\* Two pre_execute hooks ran, A then B on A's output, and the message tagged
\* by both reached run_task, a post_execute hook, the store and a post_save hook.
C8_Witness ==
    \E u \in Units :
        /\ Len(units[u].pre_log) = 2
        /\ units[u].pre_log[2].msg.labels = <<"A">>
        /\ units[u].rt_msg.labels = <<"A", "B">>
        /\ units[u].post_execute_log # <<>>
        /\ units[u].store_log # <<>>
        /\ units[u].post_save_log # <<>>

\* set_result was called and raised.
SetResultFailed(r) == r.store_log # <<>> /\ ~r.store_log[1].ok

\* set_result was called and returned.
SetResultOk(r) == r.store_log # <<>> /\ r.store_log[1].ok

\* C9: when set_result fails no post_save hook is invoked and callback raises
\* the persistence exception if raise_err and returns normally if not; when
\* set_result succeeds (and no post_save hook itself raises, and the task is
\* not cancelled) every overriding post_save hook is invoked once, in
\* registration order.
C9_PersistenceFailure ==
    \A u \in Units :
        LET r == units[u] IN
        /\ Len(r.store_log) <= 1
        /\ IsPrefix(LogMws(r.post_save_log), Overriding("post_save"))
        /\ r.post_save_log # <<>> => SetResultOk(r)
        /\ SetResultFailed(r) =>
              /\ r.post_save_log = <<>>
              /\ r.pc = "done"
              /\ r.raise_err => (r.end = "raised" /\ r.exc = Exc("set_result", "Exception"))
              /\ ~r.raise_err => (r.end = "returned" /\ r.exc = NoExc)
        /\ (SetResultOk(r) /\ r.pc = "done" /\ r.end # "cancelled"
                /\ r.hook_exc.src # "post_save")
              => (LogMws(r.post_save_log) = Overriding("post_save") /\ r.end = "returned")

\* set_result failed under raise_err = true and callback raised its exception.
C9_Witness ==
    \E u \in Units :
        /\ SetResultFailed(units[u])
        /\ units[u].raise_err
        /\ units[u].end = "raised"
        /\ Overriding("post_save") # <<>>

\* C10: an exception raised by a pre_execute, post_execute, post_save or
\* on_error hook always propagates out of callback, whatever raise_err is.
C10_HookExceptionsPropagate ==
    \A u \in Units :
        units[u].hook_exc # NoExc =>
            (units[u].pc = "done" /\ units[u].end = "raised"
                /\ units[u].exc = units[u].hook_exc)

\* run_task was entered with validation enabled and arguments that fail it.
ValidationFailed(r) ==
    /\ r.rt # "none"
    /\ ParseParamsFails(validate_params /\ r.rt_msg.task_name \in AvailableTasks, r.rt_msg)

\* C11: with validation enabled, a message whose arguments fail validation
\* makes run_task raise the validation exception: no body call, no result, no
\* on_error hook; the exception leaves callback with no post_execute hook and
\* no result-store write.
C11_ValidationFailureEscapes ==
    \A u \in Units :
        LET r == units[u] IN
        ValidationFailed(r) =>
            /\ r.pc = "done" /\ r.rt = "raised" /\ r.end = "raised"
            /\ r.exc = Exc("parse_params", "Exception")
            /\ r.body_calls = <<>> /\ r.body_out.kind = "none"
            /\ r.rt_result = NoResult /\ r.result = NoResult
            /\ r.on_error_log = <<>> /\ r.post_execute_log = <<>>
            /\ r.store_log = <<>> /\ r.post_save_log = <<>>

\* add(2, "a") was rejected by validation and callback raised.
C11_Witness ==
    \E u \in Units :
        /\ validate_params
        /\ ValidationFailed(units[u])
        /\ units[u].rt_msg.args = <<IntV(2), StrV>>
        /\ units[u].end = "raised"
        /\ Overriding("on_error") # <<>> /\ Overriding("post_execute") # <<>>

\* C12: a run_task invocation that created a dependency-resolution context
\* never ends (by returning, raising or being cancelled) with that context
\* still open.
C12_ContextClosedOnEveryOutcome ==
    \A u \in Units :
        units[u].rt \in {"returned", "raised", "cancelled"} => units[u].dep_ctx # "open"

C14_OneEndingAdmitsOne ==
    /\ [](listen_pc = "blocked" =>
            /\ sem.present
            /\ units[delivered].pc = "none")
    /\ []((max_async_tasks.given /\ max_async_tasks.n = 1 /\ units[2].pc # "none")
            => units[1].pc = "collected")
    /\ [][(listen_pc = "blocked" /\ listen_pc' # "blocked") =>
            /\ sem.value >= 1 /\ sem'.value = sem.value - 1
            /\ tasks' = tasks \cup {delivered}
            /\ delivered \notin tasks
            /\ units'[delivered].pc = "start"
            /\ \A v \in Units \ {delivered} : units'[v] = units[v]]_vars
    /\ \A u \in Units :
         (listen_pc = "blocked" /\ delivered = u /\ sem.value > 0)
             ~> (units[u].pc = "start")

\* One permit, two messages: the first unit has ended and its permit is back,
\* the listener is still in acquire with the second message.
C14_Witness ==
    /\ max_async_tasks.given /\ max_async_tasks.n = 1
    /\ delivered = 2
    /\ listen_pc = "blocked"
    /\ units[1].pc = "collected"
    /\ sem.value = 1

\* Every overriding hook of the lifecycle point has been called, once, in order.
AllCalled(log, hook) == LogMws(log) = Overriding(hook)

\* C15: per message, each lifecycle point calls the overriding hooks at most
\* once each in registration order, and the points follow one another: the
\* body is called after all pre_execute hooks, on_error hooks only after a
\* body that raised, post_execute hooks after the body and after all on_error
\* hooks, set_result after all post_execute hooks (so after the on_error
\* hooks), post_save hooks only after a set_result that succeeded.
C15_LifecycleOrder ==
    \A u \in Units :
        LET r == units[u] IN
        /\ IsPrefix(LogMws(r.pre_log), Overriding("pre_execute"))
        /\ IsPrefix(LogMws(r.on_error_log), Overriding("on_error"))
        /\ IsPrefix(LogMws(r.post_execute_log), Overriding("post_execute"))
        /\ IsPrefix(LogMws(r.post_save_log), Overriding("post_save"))
        /\ Len(r.body_calls) <= 1 /\ Len(r.store_log) <= 1
        /\ r.body_calls # <<>> => AllCalled(r.pre_log, "pre_execute")
        /\ r.on_error_log # <<>> => (r.body_calls # <<>> /\ BodyRaised(r))
        /\ r.post_execute_log # <<>> =>
              /\ r.body_out.kind # "none"
              /\ r.result.is_err = BodyRaised(r)
              /\ BodyRaised(r) => AllCalled(r.on_error_log, "on_error")
        /\ r.store_log # <<>> =>
              /\ AllCalled(r.post_execute_log, "post_execute")
              /\ BodyRaised(r) => AllCalled(r.on_error_log, "on_error")
        /\ r.post_save_log # <<>> => SetResultOk(r)

\* A body raised and callback went through every lifecycle point, each with
\* an overriding hook, down to the post_save hooks.
C15_Witness ==
    \E u \in Units :
        LET r == units[u] IN
        /\ BodyRaised(r) /\ r.pc = "done"
        /\ r.on_error_log # <<>> /\ AllCalled(r.on_error_log, "on_error")
        /\ r.pre_log # <<>> /\ r.post_execute_log # <<>>
        /\ SetResultOk(r)
        /\ r.post_save_log # <<>> /\ AllCalled(r.post_save_log, "post_save")

\* C16: no step of callback or run_task writes an object the units share
\* other than the in-flight set and the semaphore: the configuration, the
\* middleware list and the broker's custom dependency context stay as they are.
C16_UnitsWriteNoSharedState ==
    [][(\E u \in Units : units'[u] # units[u] /\ units[u].pc \notin {"none", "done"})
          => /\ custom_dependency_context' = custom_dependency_context
             /\ middlewares' = middlewares
             /\ validate_params' = validate_params
             /\ max_async_tasks' = max_async_tasks]_vars

\* C17: the body callback runs is the one registered under the decoded
\* message's task name, whatever the pre_execute hooks return, and no task
\* name makes the registry lookup raise out of callback.
C17_BodyOfDecodedName ==
    \A u \in Units :
        LET r == units[u] IN
        /\ r.body_calls # <<>> => r.body_calls[1].target = r.decoded.task_name
        /\ r.exc.src # "lookup"

\* C18: the unit of message i is spawned only after the units of messages
\* 1..i-1 and carries message i; a message delivered while a permit is free
\* (or without a semaphore) is spawned in the same step, whatever the units in
\* flight are doing.
C18_SpawnInDeliveryOrder ==
    /\ [](\A u \in Units :
            /\ units[u].origin = "listen" =>
                  (u <= delivered /\ \A v \in 1..(u - 1) : units[v].origin = "listen")
            /\ units[u].pc \notin {"none", "collected"} => units[u].raw \in ListenMessages(u))
    /\ [][delivered' # delivered =>
            /\ delivered' = delivered + 1
            /\ CanAcquire(sem) =>
                  /\ units[delivered'].pc = "none" /\ units'[delivered'].pc = "start"
                  /\ tasks' = tasks \cup {delivered'}
                  /\ listen_pc' = "listening"]_vars

\* Two permits: both units are in the in-flight set, the second has ended
\* while the first is still running.
C18_Witness ==
    /\ max_async_tasks.given /\ max_async_tasks.n = 2
    /\ tasks = {1, 2}
    /\ units[1].pc \notin {"none", "done", "collected"}
    /\ units[2].pc = "done"

\* max_async_tasks is absent, zero or negative.
NoLimit == ~max_async_tasks.given \/ max_async_tasks.n <= 0

\* C19: with max_async_tasks absent, zero or negative there is no semaphore,
\* listen never waits in acquire, every delivered message has its unit at
\* once, and task_cb removes the ended unit from the in-flight set and leaves
\* the (absent) semaphore alone.
C19_NoLimitNoSemaphore ==
    /\ [](NoLimit =>
            /\ ~sem.present
            /\ listen_pc # "blocked"
            /\ \A u \in 1..delivered : units[u].origin = "listen")
    /\ [][NoLimit =>
            /\ sem' = sem
            /\ \A u \in Units :
                 cb_runs'[u] # cb_runs[u] => (u \in tasks /\ tasks' = tasks \ {u})]_vars

\* max_async_tasks = 0: every message the queue can deliver is in flight at
\* once, none has ended.
C19_Witness ==
    /\ max_async_tasks.given /\ max_async_tasks.n = 0
    /\ delivered = MaxMsgs
    /\ tasks = Units
    /\ \A u \in Units : units[u].pc \notin {"none", "done", "collected"}

\* C20: with a semaphore of K permits, the free permits and the units in the
\* in-flight set always add up to K, the free permits stay within 0..K, and
\* the in-flight set holds exactly the spawned units whose task_cb has not run.
C20_PermitsPlusInFlight ==
    sem.present =>
        /\ max_async_tasks.given /\ max_async_tasks.n > 0
        /\ sem.value + Cardinality(tasks) = max_async_tasks.n
        /\ sem.value >= 0 /\ sem.value <= max_async_tasks.n
        /\ tasks = InFlight
        /\ \A u \in Units : cb_runs[u] = (IF units[u].pc = "collected" THEN 1 ELSE 0)

\* Two permits: one unit was cleaned up and gave its permit back, the other
\* is in flight holding one.
C20_Witness ==
    /\ sem.present /\ max_async_tasks.n = 2
    /\ sem.value = 1
    /\ Cardinality(tasks) = 1
    /\ \E u \in Units : units[u].pc = "collected"

====
